---- MODULE Spec2Model ----
(***************************************************************************)
(* Model of the WebSocket connection registry and progress fan-out of the  *)
(* keyvex infrastructure repository:                                       *)
(*   lambda/websocket-handler/src/index.ts  ($connect, $disconnect,        *)
(*       $default routes and emitStepProgress)                             *)
(*   lambda/shared/utils.ts                 (DynamoDBHelper.queryGSI and   *)
(*       the shared emitStepProgress that other Lambdas call)              *)
(*   lib/monitoring-stack.ts                (the single table, its GSI1    *)
(*       index and its 'ttl' time-to-live attribute)                       *)
(*                                                                         *)
(* The table is a set of items, at most one per (PK, SK).  Every store     *)
(* call (put, query, delete) and every send to a connection is one atomic  *)
(* step that either succeeds or throws; the awaits between them are the    *)
(* points where concurrently running Lambda invocations interleave.        *)
(* Reads of the table and of GSI1 see every earlier write.  A connectionId *)
(* may arrive in more than one $connect event, with any userId.            *)
(***************************************************************************)
EXTENDS Integers, FiniteSets, Sequences, TLC

\* ------------------------------------------------------------- bounds ---
NumUsers == 2
NumConns == 2
NumProcs == 2
MaxEvents == 3

Users == 1..NumUsers
Conns == 1..NumConns
Procs == 1..NumProcs

\* queryParams?.userId is absent (undefined / empty): `!userId` is true
NoUser == 0
\* jobId || null
NoJob == 0
JobIds == {NoJob}

\* amounts of wall-clock time (ms) that pass between two steps
TickMs == {1500, 7201000}

\* 2 * 60 * 60 seconds
TtlSeconds == 2 * 60 * 60

\* the arguments of emitStepProgress that make up the progress event;
\* data is optional
NoData == 0
JobNames == {1, 2}
StepNames == {"ingest"}
Statuses == {"running", "failed"}
DataValues == {NoData, 1}

VARIABLES
    store,       \* the items of the DynamoDB table
    now,         \* Date.now(), in milliseconds
    events,      \* how many events have arrived: routes, broadcasts, clock advances
    inv,         \* the running invocations: handler calls and broadcasts
    resp,        \* the APIGatewayProxyResult of the last finished route
    registered,  \* (userId, connectionId) stored by a 200 connect and not deleted since
    analytics,   \* the analytics-processor handler call: its event and results
    build,       \* the run of scripts/build-lambdas.js
    lookup,      \* a by-user lookup over a table shared with other entity types
    secrets,     \* the cache, timers and callers of one SecretsHelper
    doc,         \* one item written through DynamoDBHelper, and Date.now()
    queue        \* the analytics queue: each message's place and receive count

vars == <<store, now, events, inv, resp, registered, analytics, build, lookup, secrets, doc, queue>>

\* the variables of the websocket handler and the broadcasts
wsVars == <<store, now, events, inv, resp, registered>>

\* the variables of the other Lambdas and helpers
auxVars == <<analytics, build, lookup, secrets, doc, queue>>

\* all variables but those of one of them
exceptAnalytics == <<wsVars, build, lookup, secrets, doc, queue>>
exceptBuild == <<wsVars, analytics, lookup, secrets, doc, queue>>
exceptLookup == <<wsVars, analytics, build, secrets, doc, queue>>
exceptSecrets == <<wsVars, analytics, build, lookup, doc, queue>>
exceptDoc == <<wsVars, analytics, build, lookup, secrets, queue>>
exceptQueue == <<wsVars, analytics, build, lookup, secrets, doc>>

\* ------------------------------------------------------ keys and items ---
ConnectionKey(connectionId) == <<"CONNECTION", connectionId>>
UserKey(userId) == <<"USER", userId>>

\* Math.floor(Date.now() / 1000)
NowSeconds(ms) == ms \div 1000

\* a ttl rounded up to the next full second
ConnectionTtlCeil(ms) == ((ms + 999) \div 1000) + TtlSeconds

\* Math.floor(Date.now() / 1000) + (2 * 60 * 60)
ConnectionTtl(ms) == NowSeconds(ms) + TtlSeconds

\* an item whose GSI1PK names the connection instead of the user
ConnectionInfoSwappedIndex(connectionId, userId, jobId, ms) ==
    [PK |-> ConnectionKey(connectionId),
     SK |-> UserKey(userId),
     GSI1PK |-> ConnectionKey(connectionId),
     GSI1SK |-> UserKey(userId),
     connectionId |-> connectionId,
     userId |-> userId,
     jobId |-> jobId,
     connectedAt |-> ms,
     ttl |-> ConnectionTtl(ms)]

\* the connectionInfo object handleConnect stores
ConnectionInfo(connectionId, userId, jobId, ms) ==
    [PK |-> ConnectionKey(connectionId),
     SK |-> UserKey(userId),
     GSI1PK |-> UserKey(userId),
     GSI1SK |-> ConnectionKey(connectionId),
     connectionId |-> connectionId,
     userId |-> userId,
     jobId |-> jobId,
     connectedAt |-> ms,
     ttl |-> ConnectionTtl(ms)]

ItemKey(item) == <<item.PK, item.SK>>
NoKey == <<>>

\* ------------------------------------------------------ the key store ---
\* a table whose primary key is the partition key alone
PutItemByPartition(s, item) == {i \in s : i.PK # item.PK} \cup {item}

\* PutCommand: the item replaces any item with the same primary key
PutItem(s, item) == {i \in s : ItemKey(i) # ItemKey(item)} \cup {item}

\* DeleteCommand by primary key; deleting an absent key changes nothing
DeleteItem(s, key) == {i \in s : ItemKey(i) # key}

\* the item stored under a primary key, if any
GetItem(s, connectionId, userId) ==
    {i \in s : ItemKey(i) = <<ConnectionKey(connectionId), UserKey(userId)>>}

\* a query that lost its key condition: it returns the whole table
QueryPKScan(s, connectionId) == s

\* QueryCommand with KeyConditionExpression 'PK = :pk'
QueryPK(s, connectionId) == {i \in s : i.PK = ConnectionKey(connectionId)}

\* sort keys of one partition are returned in ascending order; the sort
\* keys met here are all USER#<userId>
SortKeyLeq(a, b) == a[2] <= b[2]

\* response.Items[0]
FirstItem(items) == CHOOSE i \in items : \A j \in items : SortKeyLeq(i.SK, j.SK)

\* QueryCommand on IndexName 'GSI1' with 'GSI1PK = :gsi1pk'
QueryUserIndex(s, userId) == {i \in s : i.GSI1PK = UserKey(userId)}

\* begins_with(GSI1SK, :gsi_sk)
BeginsWith(sortKey, prefix) == sortKey[1] = prefix

\* DynamoDBHelper.queryGSI(indexName, GSI_PK, GSI_SKPrefix)
queryGSI(s, gsiPk, gsiSkPrefix) ==
    {i \in s : i.GSI1PK = gsiPk /\ BeginsWith(i.GSI1SK, gsiSkPrefix)}

\* the by-user lookup of each emitStepProgress implementation
FindByUser(impl, s, userId) ==
    IF impl = "ws" THEN QueryUserIndex(s, userId)
    ELSE queryGSI(s, UserKey(userId), "CONNECTION")

ConnectionIds(items) == {i.connectionId : i \in items}


\* --------------------------------------------------- handler responses ---
Response(route, connectionId, userId, putOk, status) ==
    [route |-> route, connectionId |-> connectionId, userId |-> userId,
     putOk |-> putOk, status |-> status]

NoResponse == Response("none", 0, NoUser, TRUE, 0)

\* a handleConnect without the userId guard
MissingUserIdUnchecked(userId) == FALSE

\* `if (!userId)` of handleConnect
MissingUserId(userId) == userId = NoUser

\* statusCode of the $connect route: 400 'Missing userId', 200 'Connected',
\* or the 500 of handler's catch when the PutCommand throws
ConnectStatus(userId, putOk) ==
    IF MissingUserId(userId) THEN 400
    ELSE IF putOk THEN 200
    ELSE 500

\* the table after handleConnect
ConnectStore(s, connectionId, userId, jobId, ms, putOk) ==
    IF MissingUserId(userId) \/ ~putOk THEN s
    ELSE PutItem(s, ConnectionInfo(connectionId, userId, jobId, ms))

\* the (userId, connectionId) pair stored under a primary key
KeyPair(key) == <<key[2][2], key[1][2]>>

\* --------------------------------------------------------- invocations ---
\* one run of the send / handleDisconnect chain for one connection:
\*   pc      "send" -> "query" -> "delete" -> "done"
\*   key     the primary key handleDisconnect read from Items[0]
\*   sendOk  outcome of PostToConnectionCommand: "none" until attempted
\*   prune   handleDisconnect has been called for the failed send
\*   data    the Data of the PostToConnectionCommand, once sent
Task(pc, key, sendOk, prune) ==
    [pc |-> pc, key |-> key, sendOk |-> sendOk, prune |-> prune, data |-> <<>>]

NewTask == Task("send", NoKey, "none", FALSE)
NoTask == Task("done", NoKey, "none", FALSE)
NoTasks == [c \in {} |-> NoTask]

\* the progressMessage object of emitStepProgress
ProgressMessage(jobId, stepName, status, data, ms) ==
    [type |-> "step_progress", jobId |-> jobId, stepName |-> stepName,
     status |-> status, data |-> data, timestamp |-> ms]

ProgressEvents ==
    [jobId : JobNames, stepName : StepNames, status : Statuses, data : DataValues]

\* the event of the broadcasts that run next to the routes
DefaultEvent == [jobId |-> 1, stepName |-> "ingest", status |-> "running", data |-> NoData]

NoMessage == ProgressMessage(0, "", "", NoData, 0)

\* JSON.stringify(progressMessage): the members in insertion order; a member
\* whose value is undefined (data not passed) is left out
Stringify(m) ==
    <<  <<"type", m.type>>, <<"jobId", m.jobId>>, <<"stepName", m.stepName>>,
        <<"status", m.status>> >>
    \o (IF m.data = NoData THEN <<>> ELSE << <<"data", m.data>> >>)
    \o << <<"timestamp", m.timestamp>> >>

\* a Data that carries the id of the connection it is sent to
SendDataPerConnection(m, connectionId) ==
    Stringify(m) \o << <<"connectionId", connectionId>> >>

\* Data: JSON.stringify(progressMessage), evaluated for each connection
SendData(m, connectionId) == Stringify(m)

\* an invocation: a route of handler, or one emitStepProgress call
\*   pc      "run" for a route; "tasks", "returned" or "thrown" for a broadcast
\*   message the progressMessage the broadcast built
Invocation(kind, impl, connectionId, userId, pc, t, tasks) ==
    [kind |-> kind, impl |-> impl, connectionId |-> connectionId,
     userId |-> userId, pc |-> pc, t |-> t, tasks |-> tasks,
     message |-> NoMessage]

Idle == Invocation("idle", "none", 0, NoUser, "idle", NoTask, NoTasks)

Impls == {"ws", "shared"}

\* handleDisconnect up to its DeleteCommand: the query by PK, then Items[0]
AfterQuery(s, connectionId, task, queryOk) ==
    IF queryOk /\ QueryPK(s, connectionId) # {}
    THEN [task EXCEPT !.pc = "delete",
                      !.key = ItemKey(FirstItem(QueryPK(s, connectionId)))]
    ELSE [task EXCEPT !.pc = "done"]

\* the DeleteCommand of handleDisconnect; a throw is caught and logged
AfterDelete(s, key, deleteOk) == IF deleteOk THEN DeleteItem(s, key) ELSE s

\* handleDisconnect(connectionId) run from call to return with no other
\* invocation's step in between: the table it leaves
handleDisconnect(s, connectionId, queryOk, deleteOk) ==
    LET t == AfterQuery(s, connectionId, Task("query", NoKey, "none", FALSE), queryOk)
    IN IF t.pc = "delete" THEN AfterDelete(s, t.key, deleteOk) ELSE s

\* a send that is tried again after it failed
AfterSendRetry(impl, task, sendOk) ==
    IF sendOk THEN [task EXCEPT !.pc = "done", !.sendOk = "ok"]
    ELSE [task EXCEPT !.pc = "send", !.sendOk = "fail"]

\* the catch block of a failed send
\*   websocket-handler: await handleDisconnect(connection.connectionId)
\*   shared/utils:      only logs
AfterSend(impl, task, sendOk) ==
    IF sendOk THEN [task EXCEPT !.pc = "done", !.sendOk = "ok"]
    ELSE IF impl = "ws"
         THEN [task EXCEPT !.pc = "query", !.sendOk = "fail", !.prune = TRUE]
         ELSE [task EXCEPT !.pc = "done", !.sendOk = "fail"]

\* an emitStepProgress whose by-user query is outside the try block
AfterLookupUncaught(items, configured, queryOk) ==
    IF ~configured THEN "returned"
    ELSE IF ~queryOk THEN "thrown"
    ELSE IF items = {} THEN "returned"
    ELSE "tasks"

\* where emitStepProgress stands after its by-user query: it has returned
\* (not configured; query threw and the catch logged it; no connection
\* found) or it has started one task per item found
AfterLookup(items, configured, queryOk) ==
    IF ~configured THEN "returned"
    ELSE IF ~queryOk THEN "returned"
    ELSE IF items = {} THEN "returned"
    ELSE "tasks"

\* a handleDisconnect without its try/catch: the throw reaches handler
DisconnectStatusUncaught(storeOk) == IF storeOk THEN 200 ELSE 500

\* statusCode of a route that ran handleDisconnect: its catch logs a failed
\* store call, then 'Disconnected' (or 'Message sent') is returned
DisconnectStatus(storeOk) == 200

\* a join that resolves as soon as one task has settled
AnySettled(tasks) == \E i \in DOMAIN tasks : tasks[i].pc = "done"

\* Promise.allSettled(sendPromises)
AllSettled(tasks) == \A i \in DOMAIN tasks : tasks[i].pc = "done"

\* both emitStepProgress implementations are declared Promise<void>:
\* the value they resolve to has no fields
ReturnValue(invocation) == [f \in {} |-> 0]

\* a new invocation runs in the first free execution environment
FreeSlots(invs) == {p \in Procs : invs[p] = Idle}
FreeSlot(invs) ==
    IF FreeSlots(invs) = {} THEN 0
    ELSE CHOOSE p \in FreeSlots(invs) : \A q \in FreeSlots(invs) : p <= q

\* ------------------------------------------- the analytics processor ---
MaxBatch == 3
MessageIds == 1..MaxBatch

\* record.body: the text of a JSON object, the text "null", or no JSON
Bodies == {"object", "null", "garbage"}

SQSRecords == [messageId : MessageIds, body : Bodies]

\* event.Records: up to MaxBatch records with distinct messageIds
Batches ==
    UNION {{b \in [1..n -> SQSRecords] :
               \A k, l \in 1..n : b[k].messageId = b[l].messageId => k = l}
           : n \in 0..MaxBatch}

\* JSON.parse(record.body) throws a SyntaxError, or returns the value
JsonParse(body) ==
    IF body = "garbage" THEN [threw |-> TRUE, value |-> "none"]
    ELSE [threw |-> FALSE, value |-> body]

\* processAnalyticsMessage(record) rejects: the parse threw, or the read of
\* message.messageType threw because the parsed value is null
ProcessThrows(record) ==
    \/ JsonParse(record.body).threw
    \/ JsonParse(record.body).value = "null"

\* the entry pushed for a record, by the try branch or by the catch branch
ResultEntry(record) ==
    [messageId |-> record.messageId,
     status |-> IF ProcessThrows(record) THEN "error" ELSE "success"]

\* the handler call: pc is "idle", "loop", "returned" or "thrown"; i is the
\* position of the loop in Records
Run(pc, Records, i, results) ==
    [pc |-> pc, Records |-> Records, i |-> i, results |-> results]

NoRun == Run("idle", <<>>, 1, <<>>)

\* a loop whose body has no try/catch: the rejection leaves the handler
LoopBodyUncaught(a) ==
    IF ProcessThrows(a.Records[a.i])
    THEN [a EXCEPT !.pc = "thrown"]
    ELSE [a EXCEPT !.i = @ + 1, !.results = Append(@, ResultEntry(a.Records[a.i]))]

\* one iteration of for (const record of event.Records)
LoopBody(a) ==
    [a EXCEPT !.i = @ + 1, !.results = Append(@, ResultEntry(a.Records[a.i]))]


\* Lambda invokes handler with a batch
AnalyticsInvoke(records) ==
    /\ analytics.pc \in {"idle", "returned"}
    /\ analytics' = Run("loop", records, 1, <<>>)
    /\ UNCHANGED exceptAnalytics

\* the loop processes the next record
AnalyticsRecord ==
    /\ analytics.pc = "loop"
    /\ analytics.i <= Len(analytics.Records)
    /\ analytics' = LoopBody(analytics)
    /\ UNCHANGED exceptAnalytics

\* the loop is over: the handler logs the results and returns
AnalyticsReturn ==
    /\ analytics.pc = "loop"
    /\ analytics.i > Len(analytics.Records)
    /\ analytics' = [analytics EXCEPT !.pc = "returned"]
    /\ UNCHANGED exceptAnalytics

BatchNext ==
    \/ \E b \in Batches : AnalyticsInvoke(b)
    \/ AnalyticsRecord
    \/ AnalyticsReturn


\* ------------------------------------------------ the Lambda build ---
LAMBDA_FUNCTIONS ==
    <<"ai-processor", "analytics-processor", "websocket-handler", "email-processor">>

\* how buildLambda(functionName) ends:
\*   "built"      every step and createZipFile succeeded
\*   "failed"     a step inside the try threw before createZipFile; the catch
\*                returns the failure entry
\*   "zipFailed"  createZipFile made DIST_DIR, then the archive failed; the
\*                catch returns the failure entry
\*   "rejected"   a step before the try, or the cleanup in the catch, threw
BuildOutcomes == {"built", "failed", "zipFailed", "rejected"}

\* the object pushed to results: returned by buildLambda, or built in the
\* catch of buildAllLambdas
BuildResult(functionName, outcome) ==
    [functionName |-> functionName,
     zipPath |-> IF outcome = "built" THEN functionName ELSE "null",
     success |-> outcome = "built"]

\* createZipFile makes DIST_DIR when it is reached
MakesDistDir(outcome) == outcome \in {"built", "zipFailed"}

\* results.reduce: acc[result.functionName] = {zipPath, success, error}
ManifestFunctions(results) ==
    [name \in {results[k].functionName : k \in 1..Len(results)} |->
        LET last == CHOOSE k \in 1..Len(results) :
                        /\ results[k].functionName = name
                        /\ \A l \in 1..Len(results) :
                              results[l].functionName = name => l <= k
        IN [zipPath |-> results[last].zipPath, success |-> results[last].success]]

\* the run: pc is "idle", "loop", "done" or "thrown"; distDir says whether
\* DIST_DIR exists; outcomes keeps how each buildLambda call ended
BuildRun(pc, distDir, i, results, outcomes, manifest) ==
    [pc |-> pc, distDir |-> distDir, i |-> i, results |-> results,
     outcomes |-> outcomes, manifest |-> manifest]

NoBuild == BuildRun("idle", FALSE, 1, <<>>, <<>>, <<>>)

\* fs.writeFileSync(manifestPath, ...): ENOENT when DIST_DIR does not exist
WriteManifest(b) ==
    IF b.distDir
    THEN [b EXCEPT !.pc = "done", !.manifest = ManifestFunctions(b.results)]
    ELSE [b EXCEPT !.pc = "thrown"]

\* node scripts/build-lambdas.js, DIST_DIR left by an earlier run or not
BuildStart(distDir) ==
    /\ build.pc = "idle"
    /\ build' = BuildRun("loop", distDir, 1, <<>>, <<>>, <<>>)
    /\ UNCHANGED exceptBuild

\* one iteration of for (const functionName of LAMBDA_FUNCTIONS)
BuildOne(outcome) ==
    /\ build.pc = "loop"
    /\ build.i <= Len(LAMBDA_FUNCTIONS)
    /\ build' = [build EXCEPT
                    !.i = @ + 1,
                    !.results = Append(@, BuildResult(LAMBDA_FUNCTIONS[build.i], outcome)),
                    !.outcomes = Append(@, outcome),
                    !.distDir = @ \/ MakesDistDir(outcome)]
    /\ UNCHANGED exceptBuild

\* after the loop: the manifest is built and written
BuildManifest ==
    /\ build.pc = "loop"
    /\ build.i > Len(LAMBDA_FUNCTIONS)
    /\ build' = WriteManifest(build)
    /\ UNCHANGED exceptBuild

BuildNext ==
    \/ \E d \in BOOLEAN : BuildStart(d)
    \/ \E o \in BuildOutcomes : BuildOne(o)
    \/ BuildManifest

\* ------------------------- the by-user lookup over the shared table ---
SessionIds == {1}

\* an AISessionItem: indexed under its user's GSI1PK like a connection
AISessionItem(sessionId, userId) ==
    [PK |-> <<"SESSION", sessionId>>,
     SK |-> <<"METADATA", 0>>,
     GSI1PK |-> UserKey(userId),
     GSI1SK |-> <<"SESSION", sessionId>>,
     entityType |-> "SESSION",
     sessionId |-> sessionId,
     userId |-> userId]

\* connection.connectionId of an item that has no such attribute
Undefined == -1

ConnectionIdOf(item) ==
    IF "connectionId" \in DOMAIN item THEN item.connectionId ELSE Undefined

\* table: the items of the table; items: the lookup result; attempted: the
\* ConnectionIds a send was issued for
Lookup(pc, table, impl, userId, items, attempted) ==
    [pc |-> pc, table |-> table, impl |-> impl, userId |-> userId,
     items |-> items, attempted |-> attempted]

NoLookup == Lookup("idle", {}, "none", NoUser, {}, {})

\* handleConnect stores a connection record
TablePutConnection(connectionId, userId) ==
    /\ lookup.pc = "idle"
    /\ lookup' = [lookup EXCEPT !.table =
                     PutItem(@, ConnectionInfo(connectionId, userId, NoJob, 0))]
    /\ UNCHANGED exceptLookup

\* DynamoDBHelper.putItem stores an AI session item in the same table
TablePutSession(sessionId, userId) ==
    /\ lookup.pc = "idle"
    /\ lookup' = [lookup EXCEPT !.table =
                     PutItem(@, AISessionItem(sessionId, userId))]
    /\ UNCHANGED exceptLookup

\* emitStepProgress(userId, ...): the by-user query and the map that issues
\* one PostToConnectionCommand per returned item
LookupRun(impl, userId) ==
    /\ lookup.pc = "idle"
    /\ LET items == FindByUser(impl, lookup.table, userId)
       IN lookup' = Lookup("done", lookup.table, impl, userId, items,
                           {ConnectionIdOf(i) : i \in items})
    /\ UNCHANGED exceptLookup

LookupNext ==
    \/ \E c \in Conns, u \in Users : TablePutConnection(c, u)
    \/ \E sid \in SessionIds, u \in Users : TablePutSession(sid, u)
    \/ \E impl \in Impls, u \in Users : LookupRun(impl, u)

\* ------------------------------------------------- the secrets cache ---
NumCallers == 2
MaxMinutes == 6

Callers == 1..NumCallers
Arns == {"AI_SECRETS_ARN", "DATABASE_SECRETS_ARN"}

\* 5 * 60 * 1000 ms
CacheMs == 5 * 60 * 1000

\* no cache.set for the ARN yet
NeverStored == -1

\* cache: the ARNs in this.cache; timers: the pending setTimeout callbacks
\* as (ARN, time due); pc[k]: the ARN caller k is fetching, or "idle";
\* storedAt[arn]: the time of the last cache.set for the ARN
SecretsState(clock, cache, timers, pc, storedAt) ==
    [clock |-> clock, cache |-> cache, timers |-> timers, pc |-> pc,
     storedAt |-> storedAt]

NoSecrets ==
    SecretsState(0, {}, {}, [k \in Callers |-> "idle"],
                 [a \in Arns |-> NeverStored])

\* the callbacks due at a time: () => this.cache.delete(secretArn)
DueTimers(timers, clock) == {t \in timers : t[2] <= clock}

AfterTimers(cache, timers, clock) ==
    cache \ {t[1] : t \in DueTimers(timers, clock)}

\* getSecret(secretArn) up to its first await: answered from the cache, or
\* the GetSecretValueCommand is sent
GetSecret(k, arn) ==
    /\ secrets.pc[k] = "idle"
    /\ secrets' = IF arn \in secrets.cache
                  THEN secrets
                  ELSE [secrets EXCEPT !.pc[k] = arn]
    /\ UNCHANGED exceptSecrets

\* the fetch resolves and parses: cache.set, setTimeout, return
FetchOk(k) ==
    /\ secrets.pc[k] # "idle"
    /\ LET arn == secrets.pc[k]
       IN secrets' = [secrets EXCEPT
                        !.pc[k] = "idle",
                        !.cache = @ \cup {arn},
                        !.timers = @ \cup {<<arn, secrets.clock + CacheMs>>},
                        !.storedAt[arn] = secrets.clock]
    /\ UNCHANGED exceptSecrets

\* the fetch rejects, or JSON.parse of SecretString throws: logged, rethrown
FetchFail(k) ==
    /\ secrets.pc[k] # "idle"
    /\ secrets' = [secrets EXCEPT !.pc[k] = "idle"]
    /\ UNCHANGED exceptSecrets

\* a minute passes; the timer callbacks that come due run
Minute ==
    /\ secrets.clock < MaxMinutes * 60 * 1000
    /\ LET clock == secrets.clock + 60 * 1000
       IN secrets' = [secrets EXCEPT
                        !.clock = clock,
                        !.cache = AfterTimers(@, secrets.timers, clock),
                        !.timers = @ \ DueTimers(@, clock)]
    /\ UNCHANGED exceptSecrets

SecretsNext ==
    \/ \E k \in Callers, a \in Arns : GetSecret(k, a)
    \/ \E k \in Callers : FetchOk(k)
    \/ \E k \in Callers : FetchFail(k)
    \/ Minute

\* ------------------------------------- DynamoDBHelper putItem/updateItem ---
MaxVersion == 3
MaxClock == 4

\* an item or an updates argument is a function from attribute names to
\* values; an attribute that is absent (undefined) is not in its domain
NoAttributes == [a \in {} |-> 0]
StatusValues == {1, 2}

\* x || 0
OrZero(obj, attribute) == IF attribute \in DOMAIN obj THEN obj[attribute] ELSE 0

\* { ...obj, ...assigned }
Spread(obj, assigned) ==
    [a \in DOMAIN obj \cup DOMAIN assigned |->
        IF a \in DOMAIN assigned THEN assigned[a] ELSE obj[a]]

Attr(name, value) == [a \in {name} |-> value]

\* the items callers pass to putItem: with or without version and createdAt
PutArgs ==
    {Spread(Attr("status", st), Spread(v, c)) :
        st \in StatusValues,
        v \in {NoAttributes} \cup {Attr("version", n) : n \in 1..MaxVersion},
        c \in {NoAttributes} \cup {Attr("createdAt", 1)}}

\* the updates callers pass to updateItem: with or without a version
UpdateArgs ==
    {Spread(st, v) :
        st \in {NoAttributes} \cup {Attr("status", n) : n \in StatusValues},
        v \in {NoAttributes} \cup {Attr("version", n) : n \in 1..MaxVersion}}

\* itemWithTimestamps of putItem
ItemWithTimestamps(item, ms) ==
    Spread(item,
           Spread(Attr("createdAt", IF OrZero(item, "createdAt") # 0
                                    THEN item["createdAt"] ELSE ms),
                  Spread(Attr("updatedAt", ms),
                         Attr("version", OrZero(item, "version") + 1))))

\* updates.updatedAt = Date.now(); updates.version = (updates.version || 0) + 1
UpdatesStamped(updates, ms) ==
    Spread(updates,
           Spread(Attr("updatedAt", ms),
                  Attr("version", OrZero(updates, "version") + 1)))

\* UpdateCommand with SET #attr0 = :val0, ...: the named attributes are
\* overwritten, the others kept
UpdateSet(stored, updates) == Spread(stored, updates)

Doc(clock, item) == [clock |-> clock, item |-> item]
NoDoc == Doc(1, NoAttributes)

\* putItem(item)
DocPut(item) ==
    /\ doc' = [doc EXCEPT !.item = ItemWithTimestamps(item, doc.clock)]
    /\ UNCHANGED exceptDoc

\* updateItem(PK, SK, updates) on the stored item
DocUpdate(updates) ==
    /\ doc.item # NoAttributes
    /\ doc' = [doc EXCEPT !.item =
                  UpdateSet(@, UpdatesStamped(updates, doc.clock))]
    /\ UNCHANGED exceptDoc

DocTick ==
    /\ doc.clock < MaxClock
    /\ doc' = [doc EXCEPT !.clock = @ + 1]
    /\ UNCHANGED exceptDoc

DocNext ==
    \/ \E item \in PutArgs : DocPut(item)
    \/ \E updates \in UpdateArgs : DocUpdate(updates)
    \/ DocTick

\* ------------------------------------ the analytics queue and its DLQ ---
NumMessages == 2
QMessages == 1..NumMessages

\* deadLetterQueue: { queue: analyticsDlq, maxReceiveCount: 5 }
MaxReceiveCount == 5

\* a message is not sent yet ("none"), in the queue and visible, received
\* and in flight, deleted, or in the dead-letter queue
QMessage(state, body, receiveCount) ==
    [state |-> state, body |-> body, receiveCount |-> receiveCount]

NoQueue == [m \in QMessages |-> QMessage("none", "object", 0)]

\* the messages a receive can return
Receivable(q) ==
    {m \in QMessages :
        q[m].state = "visible" /\ q[m].receiveCount < MaxReceiveCount}

\* event.Records of the invocation that gets the messages of S, by messageId
RecordsOf(q, S) ==
    LET order == CHOOSE f \in [1..Cardinality(S) -> S] :
                     \A k, l \in 1..Cardinality(S) : k < l => f[k] < f[l]
    IN [k \in 1..Cardinality(S) |->
           [messageId |-> order[k], body |-> q[order[k]].body]]

\* what the event source does with the batch when the invocation is over:
\* the handler returned, so the batch is deleted as processed; the
\* invocation failed, so the messages become visible again
AfterInvocation(q, pc) ==
    [m \in QMessages |->
        IF q[m].state # "inflight" THEN q[m]
        ELSE IF pc = "returned" THEN [q[m] EXCEPT !.state = "deleted"]
        ELSE [q[m] EXCEPT !.state = "visible"]]

\* a producer sends a message to the analytics queue
QSend(m, body) ==
    /\ queue[m].state = "none"
    /\ queue' = [queue EXCEPT ![m] = QMessage("visible", body, 0)]
    /\ UNCHANGED exceptQueue

\* the event source receives a batch and invokes handler with it
QReceive(S) ==
    /\ analytics.pc = "idle"
    /\ S # {}
    /\ S \subseteq Receivable(queue)
    /\ Cardinality(S) <= MaxBatch
    /\ queue' = [m \in QMessages |->
                   IF m \in S
                   THEN [queue[m] EXCEPT !.state = "inflight",
                                         !.receiveCount = @ + 1]
                   ELSE queue[m]]
    /\ analytics' = Run("loop", RecordsOf(queue, S), 1, <<>>)
    /\ UNCHANGED <<wsVars, build, lookup, secrets, doc>>

\* the invocation dies while the loop runs (timeout, out of memory)
QCrash ==
    /\ analytics.pc = "loop"
    /\ analytics' = [analytics EXCEPT !.pc = "thrown"]
    /\ UNCHANGED exceptAnalytics

\* the invocation is over
QSettle ==
    /\ analytics.pc \in {"returned", "thrown"}
    /\ queue' = AfterInvocation(queue, analytics.pc)
    /\ analytics' = NoRun
    /\ UNCHANGED <<wsVars, build, lookup, secrets, doc>>

\* a message received maxReceiveCount times and not deleted is moved to the
\* dead-letter queue
QRedrive(m) ==
    /\ queue[m].state = "visible"
    /\ queue[m].receiveCount >= MaxReceiveCount
    /\ queue' = [queue EXCEPT ![m].state = "dlq"]
    /\ UNCHANGED exceptQueue

\* the steps the queue, the event source and the handler take by themselves
QueueDeliver ==
    \/ \E S \in SUBSET QMessages : QReceive(S)
    \/ AnalyticsRecord
    \/ AnalyticsReturn
    \/ QSettle
    \/ \E m \in QMessages : QRedrive(m)

QueueNext ==
    \/ \E m \in QMessages, body \in Bodies : QSend(m, body)
    \/ QueueDeliver
    \/ QCrash

AuxIdle ==
    /\ analytics = NoRun
    /\ build = NoBuild
    /\ lookup = NoLookup
    /\ secrets = NoSecrets
    /\ doc = NoDoc
    /\ queue = NoQueue

----------------------------------------------------------------------------
Init ==
    /\ store = {}
    /\ now = 0
    /\ events = 0
    /\ inv = [p \in Procs |-> Idle]
    /\ resp = NoResponse
    /\ AuxIdle
    /\ registered = {}

\* route $connect: handleConnect, and the catch of handler
Connect(connectionId, userId, jobId, putOk) ==
    /\ events < MaxEvents
    /\ events' = events + 1
    /\ store' = ConnectStore(store, connectionId, userId, jobId, now, putOk)
    /\ resp' = Response("$connect", connectionId, userId, putOk,
                        ConnectStatus(userId, putOk))
    /\ registered' = IF ConnectStatus(userId, putOk) = 200
                     THEN registered \cup {<<userId, connectionId>>}
                     ELSE registered
    /\ UNCHANGED <<now, inv>>
    /\ UNCHANGED auxVars

RouteOf(kind) == IF kind = "disconnect" THEN "$disconnect" ELSE "$default"

\* handleDisconnect called inside a route, up to its first return or its
\* DeleteCommand: with no item found (or a throw, which is caught) the
\* route returns 200
RouteDisconnect(p, kind, connectionId, sendOk, queryOk) ==
    LET t == AfterQuery(store, connectionId,
                        Task("query", NoKey, sendOk, sendOk = "fail"), queryOk)
    IN IF t.pc = "delete"
       THEN /\ inv' = [inv EXCEPT ![p] =
                         Invocation(kind, "none", connectionId, NoUser, "run",
                                    t, NoTasks)]
            /\ UNCHANGED resp
       ELSE /\ resp' = Response(RouteOf(kind), connectionId, NoUser, TRUE,
                                DisconnectStatus(queryOk))
            /\ UNCHANGED inv

\* route $disconnect: handleDisconnect(connectionId)
DisconnectEvent(p, connectionId, queryOk) ==
    /\ events < MaxEvents
    /\ events' = events + 1
    /\ p = FreeSlot(inv)
    /\ RouteDisconnect(p, "disconnect", connectionId, "none", queryOk)
    /\ UNCHANGED <<store, now, registered>>
    /\ UNCHANGED auxVars

\* route $default: JSON.parse of the body, then handleMessage echoes to the
\* sender; a failed echo calls handleDisconnect(connectionId)
MessageEvent(p, connectionId, bodyOk, sendOk, queryOk) ==
    /\ events < MaxEvents
    /\ events' = events + 1
    /\ p = FreeSlot(inv)
    /\ IF ~bodyOk
       THEN /\ resp' = Response("$default", connectionId, NoUser, TRUE, 500)
            /\ UNCHANGED inv
       ELSE IF sendOk
       THEN /\ resp' = Response("$default", connectionId, NoUser, TRUE, 200)
            /\ UNCHANGED inv
       ELSE RouteDisconnect(p, "message", connectionId, "fail", queryOk)
    /\ UNCHANGED <<store, now, registered>>
    /\ UNCHANGED auxVars

\* any other routeKey
UnknownRoute ==
    /\ events < MaxEvents
    /\ events' = events + 1
    /\ resp' = Response("other", 0, NoUser, TRUE, 400)
    /\ UNCHANGED <<store, now, inv, registered>>
    /\ UNCHANGED auxVars

\* handleDisconnect inside a route: the DeleteCommand, then the 200
HandlerDelete(p, deleteOk) ==
    /\ inv[p].kind \in {"disconnect", "message"}
    /\ inv[p].t.pc = "delete"
    /\ store' = AfterDelete(store, inv[p].t.key, deleteOk)
    /\ registered' = IF deleteOk THEN registered \ {KeyPair(inv[p].t.key)}
                     ELSE registered
    /\ inv' = [inv EXCEPT ![p] = Idle]
    /\ resp' = Response(RouteOf(inv[p].kind), inv[p].connectionId, NoUser, TRUE,
                        DisconnectStatus(deleteOk))
    /\ UNCHANGED <<now, events>>
    /\ UNCHANGED auxVars

\* emitStepProgress up to the map over the lookup result: the configuration
\* guard, the by-user query, the empty-result return
BroadcastStart(p, impl, userId, event, configured, queryOk) ==
    /\ events < MaxEvents
    /\ events' = events + 1
    /\ p = FreeSlot(inv)
    /\ LET items == IF configured /\ queryOk
                    THEN FindByUser(impl, store, userId) ELSE {}
           pc == AfterLookup(items, configured, queryOk)
       IN inv' = [inv EXCEPT ![p] =
                    [Invocation("broadcast", impl, 0, userId, pc, NoTask,
                                [c \in ConnectionIds(items) |-> NewTask])
                     EXCEPT !.message =
                         IF pc = "tasks"
                         THEN ProgressMessage(event.jobId, event.stepName,
                                              event.status, event.data, now)
                         ELSE NoMessage]]
    /\ UNCHANGED <<store, now, resp, registered>>
    /\ UNCHANGED auxVars

\* one connection's PostToConnectionCommand settles
TaskSend(p, connectionId, sendOk) ==
    /\ inv[p].kind = "broadcast"
    /\ inv[p].pc = "tasks"
    /\ connectionId \in DOMAIN inv[p].tasks
    /\ inv[p].tasks[connectionId].pc = "send"
    /\ inv' = [inv EXCEPT ![p].tasks[connectionId] =
                 [AfterSend(inv[p].impl, @, sendOk)
                  EXCEPT !.data = SendData(inv[p].message, connectionId)]]
    /\ UNCHANGED <<store, now, events, resp, registered>>
    /\ UNCHANGED auxVars

\* handleDisconnect(connection.connectionId) of a failed send: the query
TaskQuery(p, connectionId, queryOk) ==
    /\ inv[p].kind = "broadcast"
    /\ inv[p].pc = "tasks"
    /\ connectionId \in DOMAIN inv[p].tasks
    /\ inv[p].tasks[connectionId].pc = "query"
    /\ inv' = [inv EXCEPT ![p].tasks[connectionId] =
                 AfterQuery(store, connectionId, @, queryOk)]
    /\ UNCHANGED <<store, now, events, resp, registered>>
    /\ UNCHANGED auxVars

\* handleDisconnect(connection.connectionId) of a failed send: the delete
TaskDelete(p, connectionId, deleteOk) ==
    /\ inv[p].kind = "broadcast"
    /\ inv[p].pc = "tasks"
    /\ connectionId \in DOMAIN inv[p].tasks
    /\ inv[p].tasks[connectionId].pc = "delete"
    /\ store' = AfterDelete(store, inv[p].tasks[connectionId].key, deleteOk)
    /\ registered' = IF deleteOk
                     THEN registered \ {KeyPair(inv[p].tasks[connectionId].key)}
                     ELSE registered
    /\ inv' = [inv EXCEPT ![p].tasks[connectionId].pc = "done"]
    /\ UNCHANGED <<now, events, resp>>
    /\ UNCHANGED auxVars

\* an emitStepProgress that returns without awaiting its sendPromises
BroadcastReturnNoWait(p) ==
    /\ inv[p].kind = "broadcast"
    /\ inv[p].pc = "tasks"
    /\ inv' = [inv EXCEPT ![p].pc = "returned"]
    /\ UNCHANGED <<store, now, events, resp, registered>>
    /\ UNCHANGED auxVars

\* await Promise.allSettled(sendPromises) resolves; emitStepProgress returns
BroadcastReturn(p) ==
    /\ inv[p].kind = "broadcast"
    /\ inv[p].pc = "tasks"
    /\ AllSettled(inv[p].tasks)
    /\ inv' = [inv EXCEPT ![p].pc = "returned"]
    /\ UNCHANGED <<store, now, events, resp, registered>>
    /\ UNCHANGED auxVars

\* the caller of emitStepProgress has gone on; the slot is free again
Retire(p) ==
    /\ inv[p].kind = "broadcast"
    /\ inv[p].pc = "returned"
    /\ inv' = [inv EXCEPT ![p] = Idle]
    /\ UNCHANGED <<store, now, events, resp, registered>>
    /\ UNCHANGED auxVars

\* wall-clock time passes
Tick(ms) ==
    /\ events < MaxEvents
    /\ events' = events + 1
    /\ now' = now + ms
    /\ UNCHANGED <<store, inv, resp, registered>>
    /\ UNCHANGED auxVars

\* the table's time-to-live reaper (timeToLiveAttribute: 'ttl') deletes an
\* expired item at some time after its expiry
Reap(connectionId, userId) ==
    /\ \E item \in GetItem(store, connectionId, userId) :
          /\ item.ttl < NowSeconds(now)
          /\ store' = store \ {item}
    /\ registered' = registered \ {<<userId, connectionId>>}
    /\ UNCHANGED <<now, events, inv, resp>>
    /\ UNCHANGED auxVars

Next ==
    \/ \E c \in Conns, u \in Users \cup {NoUser}, j \in JobIds, ok \in BOOLEAN :
          Connect(c, u, j, ok)
    \/ \E p \in Procs, c \in Conns, ok \in BOOLEAN : DisconnectEvent(p, c, ok)
    \/ \E p \in Procs, c \in Conns, b \in BOOLEAN, ok \in BOOLEAN, qok \in BOOLEAN :
          MessageEvent(p, c, b, ok, qok)
    \/ UnknownRoute
    \/ \E p \in Procs, ok \in BOOLEAN : HandlerDelete(p, ok)
    \/ \E p \in Procs, impl \in Impls, u \in Users, cf \in BOOLEAN, ok \in BOOLEAN :
          BroadcastStart(p, impl, u, DefaultEvent, cf, ok)
    \/ \E p \in Procs, c \in Conns, ok \in BOOLEAN : TaskSend(p, c, ok)
    \/ \E p \in Procs, c \in Conns, ok \in BOOLEAN : TaskQuery(p, c, ok)
    \/ \E p \in Procs, c \in Conns, ok \in BOOLEAN : TaskDelete(p, c, ok)
    \/ \E p \in Procs : BroadcastReturn(p)
    \/ \E p \in Procs : Retire(p)
    \/ \E ms \in TickMs : Tick(ms)
    \/ \E c \in Conns, u \in Users : Reap(c, u)

Spec == Init /\ [][Next]_vars

\* the analytics processor alone
BatchSpec == Init /\ [][BatchNext]_vars

\* the build script alone
BuildSpec == Init /\ [][BuildNext]_vars

\* by-user lookups over a table that also holds AI session items
LookupSpec == Init /\ [][LookupNext]_vars

\* one SecretsHelper, its callers and the clock
SecretsSpec == Init /\ [][SecretsNext]_vars

\* putItem and updateItem calls on one item
DocSpec == Init /\ [][DocNext]_vars

\* the analytics queue, its event source and the handler; every delivery
\* step that stays possible is eventually taken
QueueSpec == Init /\ [][QueueNext]_vars /\ WF_vars(QueueDeliver)

\* the routes of handler alone, no emitStepProgress running next to them
RouteNext ==
    \/ \E c \in Conns, u \in Users \cup {NoUser}, j \in JobIds, ok \in BOOLEAN :
          Connect(c, u, j, ok)
    \/ \E p \in Procs, c \in Conns, ok \in BOOLEAN : DisconnectEvent(p, c, ok)
    \/ \E p \in Procs, c \in Conns, b \in BOOLEAN, ok \in BOOLEAN, qok \in BOOLEAN :
          MessageEvent(p, c, b, ok, qok)
    \/ UnknownRoute
    \/ \E p \in Procs, ok \in BOOLEAN : HandlerDelete(p, ok)
    \/ \E ms \in TickMs : Tick(ms)
    \/ \E c \in Conns, u \in Users : Reap(c, u)

RouteSpec == Init /\ [][RouteNext]_vars

\* the events that reach a PutCommand or a DeleteCommand: a $connect with a
\* userId, a $disconnect, a message whose echo fails and a handler broadcast,
\* their queries answering; with the clock and the TTL reaper
StoreNext ==
    \/ \E c \in Conns, u \in Users, j \in JobIds, ok \in BOOLEAN :
          Connect(c, u, j, ok)
    \/ \E p \in Procs, c \in Conns : DisconnectEvent(p, c, TRUE)
    \/ \E p \in Procs, c \in Conns : MessageEvent(p, c, TRUE, FALSE, TRUE)
    \/ \E p \in Procs, ok \in BOOLEAN : HandlerDelete(p, ok)
    \/ \E p \in Procs, u \in Users :
          BroadcastStart(p, "ws", u, DefaultEvent, TRUE, TRUE)
    \/ \E p \in Procs, c \in Conns, ok \in BOOLEAN : TaskSend(p, c, ok)
    \/ \E p \in Procs, c \in Conns : TaskQuery(p, c, TRUE)
    \/ \E p \in Procs, c \in Conns, ok \in BOOLEAN : TaskDelete(p, c, ok)
    \/ \E p \in Procs : BroadcastReturn(p)
    \/ \E p \in Procs : Retire(p)
    \/ \E ms \in TickMs : Tick(ms)
    \/ \E c \in Conns, u \in Users : Reap(c, u)

StoreSpec == Init /\ [][StoreNext]_vars

\* the continuations of one emitStepProgress call: a pending send, query or
\* delete settles (the SDK calls time out), or the join resolves
BroadcastStep(p) ==
    \/ \E c \in Conns, ok \in BOOLEAN : TaskSend(p, c, ok)
    \/ \E c \in Conns, ok \in BOOLEAN : TaskQuery(p, c, ok)
    \/ \E c \in Conns, ok \in BOOLEAN : TaskDelete(p, c, ok)
    \/ BroadcastReturn(p)

\* the state before the last event: the earlier events were $connect events,
\* each connection id connected for at most one user, and events that left
\* nothing behind
FairInit ==
    \E owner \in [Conns -> Users \cup {NoUser}] :
        LET connected == {c \in Conns : owner[c] # NoUser}
        IN /\ store = {ConnectionInfo(c, owner[c], NoJob, 0) : c \in connected}
           /\ registered = {<<owner[c], c>> : c \in connected}
           /\ Cardinality(connected) < MaxEvents
           /\ events = MaxEvents - 1
           /\ now = 0
           /\ inv = [p \in Procs |-> Idle]
           /\ resp = NoResponse
           /\ AuxIdle

\* the broadcast that follows
FairNext ==
    \/ \E p \in Procs, impl \in Impls, u \in Users, cf \in BOOLEAN, ok \in BOOLEAN :
          BroadcastStart(p, impl, u, DefaultEvent, cf, ok)
    \/ \E p \in Procs, c \in Conns, ok \in BOOLEAN : TaskSend(p, c, ok)
    \/ \E p \in Procs, c \in Conns, ok \in BOOLEAN : TaskQuery(p, c, ok)
    \/ \E p \in Procs, c \in Conns, ok \in BOOLEAN : TaskDelete(p, c, ok)
    \/ \E p \in Procs : BroadcastReturn(p)
    \/ \E p \in Procs : Retire(p)

\* one broadcast of any progress event
PayloadNext ==
    \/ \E p \in Procs, impl \in Impls, u \in Users, e \in ProgressEvents :
          BroadcastStart(p, impl, u, e, TRUE, TRUE)
    \/ \E p \in Procs, c \in Conns, ok \in BOOLEAN : TaskSend(p, c, ok)
    \/ \E p \in Procs, c \in Conns, ok \in BOOLEAN : TaskQuery(p, c, ok)
    \/ \E p \in Procs, c \in Conns, ok \in BOOLEAN : TaskDelete(p, c, ok)
    \/ \E p \in Procs : BroadcastReturn(p)
    \/ \E p \in Procs : Retire(p)

PayloadSpec == FairInit /\ [][PayloadNext]_vars

\* the event loop runs every continuation that is ready
FairSpec == FairInit /\ [][FairNext]_vars /\ \A p \in Procs : WF_vars(BroadcastStep(p))

----------------------------------------------------------------------------
\* Properties

\* the connections a broadcast has a settled outcome for
Failed(tasks) == {c \in DOMAIN tasks : tasks[c].sendOk = "fail"}
Delivered(tasks) == {c \in DOMAIN tasks : tasks[c].sendOk = "ok"}

RejectedConnect(connectionId) ==
    \E j \in JobIds, ok \in BOOLEAN : Connect(connectionId, NoUser, j, ok)

\* C1 (round trip): every (userId, connectionId) that a $connect answered
\* with 200 has stored, and whose record no disconnect, prune or expiry has
\* deleted since, is in the result of the by-user lookup of both
\* emitStepProgress implementations.
C1_RoundTrip ==
    \A r \in registered : \A impl \in Impls :
        r[2] \in ConnectionIds(FindByUser(impl, store, r[1]))

\* a broadcast whose lookup returned a registered connection
C1_Witness ==
    \E p \in Procs :
        /\ inv[p].kind = "broadcast"
        /\ \E c \in DOMAIN inv[p].tasks : <<inv[p].userId, c>> \in registered

\* C2 (self-healing): when a websocket-handler broadcast whose lookup
\* returned two connections returns after exactly one failed delivery, the
\* by-user lookup returns exactly the connection that was delivered to, and
\* the value the broadcast returns is a report with pruned = 1.
C2_SelfHealing ==
    [][\A p \in Procs :
          ( /\ inv[p].kind = "broadcast"
            /\ inv[p].impl = "ws"
            /\ inv[p].pc = "tasks"
            /\ inv'[p].pc = "returned"
            /\ Cardinality(DOMAIN inv[p].tasks) = 2
            /\ Cardinality(Failed(inv[p].tasks)) = 1 )
          => ( /\ ConnectionIds(FindByUser("ws", store', inv[p].userId))
                    = Delivered(inv[p].tasks)
               /\ "pruned" \in DOMAIN ReturnValue(inv'[p])
               /\ ReturnValue(inv'[p])["pruned"] = 1 )]_vars

\* C3 (isolation): a broadcast that has returned has attempted the send to
\* every connection its lookup returned, whatever the outcome of the other
\* connections' sends and prunes and however the tasks interleaved.
C3_Isolation ==
    \A p \in Procs :
        (inv[p].kind = "broadcast" /\ inv[p].pc = "returned")
        => \A c \in DOMAIN inv[p].tasks : inv[p].tasks[c].sendOk # "none"

\* a returned broadcast with one failed and one successful delivery
C3_Witness ==
    \E p \in Procs :
        /\ inv[p].kind = "broadcast"
        /\ inv[p].pc = "returned"
        /\ Failed(inv[p].tasks) # {}
        /\ Delivered(inv[p].tasks) # {}

\* C4 (unregister idempotence), in the runs where every store call
\* succeeds: from every reachable table, a second handleDisconnect of the
\* same connectionId right after the first leaves the table as the first
\* left it (both calls return 200: handleDisconnect has no other return).
C4_UnregisterIdempotent ==
    \A c \in Conns :
        handleDisconnect(handleDisconnect(store, c, TRUE, TRUE), c, TRUE, TRUE)
            = handleDisconnect(store, c, TRUE, TRUE)

\* C5: in every broadcast implementation, a failed delivery to a connection
\* calls the removal of that connection's record.
C5_FailureTriggersPrune ==
    \A p \in Procs : \A c \in DOMAIN inv[p].tasks :
        inv[p].tasks[c].sendOk = "fail" => inv[p].tasks[c].prune

\* C6: the by-user lookup never returns a record whose ttl is earlier than
\* the current time.
C6_ExpiredExcluded ==
    \A impl \in Impls, u \in Users :
        \A i \in FindByUser(impl, store, u) : ~(i.ttl < NowSeconds(now))

\* C7: a $connect with a userId whose PutCommand fails is still answered
\* with status 200.
C7_PutFailureNonFatal ==
    (resp.route = "$connect" /\ resp.userId # NoUser /\ ~resp.putOk)
    => resp.status = 200

\* C8 as stated: a $connect without userId is answered 400, leaves the
\* table unchanged, and no record of that connectionId exists afterwards.
C8_RejectedNoRecord ==
    [][\A c \in Conns :
          RejectedConnect(c)
          => (resp'.status = 400 /\ store' = store /\ QueryPK(store', c) = {})]_vars

\* C8 as amended: a $connect without userId is answered 400 and leaves the
\* table unchanged (a record an earlier $connect of the same connectionId
\* stored is still there).
C8_RejectedBeforeStore ==
    [][\A c \in Conns :
          RejectedConnect(c) => (resp'.status = 400 /\ store' = store)]_vars

\* a rejected $connect for a connectionId that has a record
C8_Witness ==
    /\ resp.route = "$connect"
    /\ resp.userId = NoUser
    /\ resp.status = 400
    /\ QueryPK(store, resp.connectionId) # {}

\* C9: at most one record carries a given connectionId.
C9_ConnectionIdUnique ==
    \A c \in Conns : Cardinality(QueryPK(store, c)) <= 1

\* C10: a register for user X, and a step of a broadcast for user X (its
\* prunes), add, remove or change only records whose userId is X.
C10_UserIsolation ==
    [][/\ \A c \in Conns, u \in Users :
            (\E j \in JobIds, ok \in BOOLEAN : Connect(c, u, j, ok))
            => \A i \in (store \ store') \cup (store' \ store) : i.userId = u
       /\ \A p \in Procs :
            (inv[p].kind = "broadcast" /\ inv'[p] # inv[p])
            => \A i \in (store \ store') \cup (store' \ store) :
                   i.userId = inv[p].userId]_vars

\* a handleDisconnect(connectionId) that has queried and not yet settled
RemovalPending(invs, connectionId) ==
    \E p \in Procs :
        \/ /\ invs[p].kind \in {"disconnect", "message"}
           /\ invs[p].connectionId = connectionId
        \/ /\ invs[p].kind = "broadcast"
           /\ connectionId \in DOMAIN invs[p].tasks
           /\ invs[p].tasks[connectionId].pc \in {"query", "delete"}

\* the step in which a handleDisconnect(connectionId) deletes, the store
\* accepting the delete
RemovalDeletes(connectionId) ==
    \/ \E p \in Procs : inv[p].connectionId = connectionId /\ HandlerDelete(p, TRUE)
    \/ \E p \in Procs : TaskDelete(p, connectionId, TRUE)

\* C11: removals of one connection id, in any interleaving, are safe: none
\* ends in an error, and when the last of them has deleted, no record for
\* that connection id is left.
C11_ConcurrentRemovalsSafe ==
    [][\A c \in Conns :
          /\ (\E p \in Procs, ok \in BOOLEAN :
                 inv[p].connectionId = c /\ HandlerDelete(p, ok))
             => resp'.status = 200
          /\ (RemovalDeletes(c) /\ ~RemovalPending(inv', c))
             => QueryPK(store', c) = {}]_vars

Running(p) == inv[p].kind = "broadcast" /\ inv[p].pc = "tasks"
Returned(p) == inv[p].kind = "broadcast" /\ inv[p].pc = "returned"

\* C12: a broadcast returns only after every per-connection task (the send
\* and the prune a failed send starts) has settled, and with every
\* continuation eventually run it does return.
C12_ReturnsAfterAllSettled ==
    /\ [](\A p \in Procs :
            Returned(p) => \A c \in DOMAIN inv[p].tasks : inv[p].tasks[c].pc = "done")
    /\ \A p \in Procs : Running(p) ~> Returned(p)

C12_Witness ==
    \E p \in Procs :
        /\ Returned(p)
        /\ Cardinality(DOMAIN inv[p].tasks) = 2
        /\ \E c \in DOMAIN inv[p].tasks :
              inv[p].tasks[c].prune /\ inv[p].tasks[c].key # NoKey

\* C13: a broadcast never throws: whether its lookup fails, a send fails or
\* a prune fails, the call runs its tasks and returns normally.
C13_NeverThrows ==
    \A p \in Procs :
        inv[p].kind = "broadcast" => inv[p].pc \in {"tasks", "returned"}

\* a broadcast has returned although a send failed and the prune that
\* followed failed too (the record is still there)
C13_Witness ==
    /\ \E p \in Procs :
          /\ Returned(p)
          /\ \E c \in DOMAIN inv[p].tasks :
                /\ inv[p].tasks[c].sendOk = "fail"
                /\ inv[p].tasks[c].prune
                /\ GetItem(store, c, inv[p].userId) # {}

\* the DeliveryReport of a broadcast that attempted nothing
EmptyReport == [attempted |-> 0, delivered |-> 0, pruned |-> 0]

\* C14: a broadcast to a user with no registered connection returns the
\* report {attempted 0, delivered 0, pruned 0}, is not an error, sends
\* nothing and changes nothing in the store.
C14_EmptyBroadcast ==
    [][\A p \in Procs, impl \in Impls, u \in Users :
          (/\ FindByUser(impl, store, u) = {}
           /\ BroadcastStart(p, impl, u, DefaultEvent, TRUE, TRUE))
          => /\ inv'[p].pc = "returned"
             /\ DOMAIN inv'[p].tasks = {}
             /\ store' = store
             /\ ReturnValue(inv'[p]) = EmptyReport]_vars

\* the connections a broadcast removed after their send failed
Pruned(tasks) ==
    {c \in DOMAIN tasks : tasks[c].sendOk = "fail" /\ tasks[c].key # NoKey}

\* C15: every broadcast returns a DeliveryReport: attempted is the number
\* of connections the lookup returned, delivered the number of sends that
\* succeeded, pruned the number of connections removed after a failed
\* send, and attempted = delivered + pruned.
C15_DeliveryReport ==
    \A p \in Procs :
        Returned(p) =>
            LET r == ReturnValue(inv[p])
            IN /\ DOMAIN r = {"attempted", "delivered", "pruned"}
               /\ r["attempted"] = Cardinality(DOMAIN inv[p].tasks)
               /\ r["delivered"] = Cardinality(Delivered(inv[p].tasks))
               /\ r["pruned"] = Cardinality(Pruned(inv[p].tasks))
               /\ r["attempted"] = r["delivered"] + r["pruned"]

\* C16: a store failure during disconnect handling is absorbed: whether
\* the query or the delete throws, the $disconnect route does not throw
\* and returns 200.
C16_DisconnectAbsorbsFailure ==
    [][/\ \A p \in Procs, c \in Conns :
            DisconnectEvent(p, c, FALSE)
            => /\ resp'.route = "$disconnect"
               /\ resp'.status = 200
               /\ inv' = inv
       /\ \A p \in Procs :
            (inv[p].kind = "disconnect" /\ HandlerDelete(p, FALSE))
            => /\ resp'.route = "$disconnect"
               /\ resp'.status = 200
               /\ inv'[p] = Idle
               /\ store' = store]_vars

\* one $connect, then a $disconnect of that connection that returned 200
\* with the record still stored: its store call failed
C16_Witness ==
    /\ events = 2
    /\ \A p \in Procs : inv[p] = Idle
    /\ resp.route = "$disconnect"
    /\ resp.status = 200
    /\ QueryPK(store, resp.connectionId) # {}

\* the step removes the record stored by $connect(connectionId, userId)
Removed(connectionId, userId) ==
    /\ GetItem(store, connectionId, userId) # {}
    /\ GetItem(store', connectionId, userId) = {}

\* the delete of a $disconnect event for this connection id
ExplicitDisconnect(connectionId) ==
    \E p \in Procs :
        /\ inv[p].kind = "disconnect"
        /\ inv[p].connectionId = connectionId
        /\ HandlerDelete(p, TRUE)

\* the delete of the prune that follows a failed echo to this connection id
EchoPrune(connectionId) ==
    \E p \in Procs :
        /\ inv[p].kind = "message"
        /\ inv[p].connectionId = connectionId
        /\ inv[p].t.sendOk = "fail"
        /\ HandlerDelete(p, TRUE)

\* the delete of the prune that follows a failed broadcast send to this
\* connection id
BroadcastPrune(connectionId) ==
    \E p \in Procs :
        /\ inv[p].kind = "broadcast"
        /\ connectionId \in DOMAIN inv[p].tasks
        /\ inv[p].tasks[connectionId].sendOk = "fail"
        /\ TaskDelete(p, connectionId, TRUE)

\* the TTL reaper deletes the expired record
Expiry(connectionId, userId) == Reap(connectionId, userId)

\* C17 (as stated): a stored Connection record stays until an explicit
\* $disconnect event for its connection id or its expiry; no other
\* operation removes it.
C17_UntilDisconnectOrExpiry ==
    [][store' # store =>
          \A c \in Conns, u \in Users :
              Removed(c, u) => (ExplicitDisconnect(c) \/ Expiry(c, u))]_vars

\* C17 (amended): a stored Connection record stays until an explicit
\* $disconnect event for its connection id, the prune after a failed send
\* to its connection id (echo or broadcast), or its expiry; no other
\* operation removes it.
C17_UntilRemovalOrExpiry ==
    [][store' # store =>
          \A c \in Conns, u \in Users :
              Removed(c, u) =>
                  \/ ExplicitDisconnect(c)
                  \/ EchoPrune(c)
                  \/ BroadcastPrune(c)
                  \/ Expiry(c, u)]_vars

\* a broadcast's prune has removed the record of a connection
C17_Witness ==
    \E p \in Procs :
        /\ inv[p].kind = "broadcast"
        /\ \E c \in DOMAIN inv[p].tasks :
              /\ inv[p].tasks[c].pc = "done"
              /\ inv[p].tasks[c].key # NoKey
              /\ GetItem(store, KeyPair(inv[p].tasks[c].key)[2],
                         KeyPair(inv[p].tasks[c].key)[1]) = {}

\* C18: within one broadcast each connection the lookup returned gets at
\* most one send attempt: one task per connection, and a send settles only
\* for a task that has not been attempted; a failed send is not retried.
C18_AtMostOneSend ==
    /\ [](\A impl \in Impls, u \in Users :
            Cardinality(ConnectionIds(FindByUser(impl, store, u)))
                = Cardinality(FindByUser(impl, store, u)))
    /\ [][\A p \in Procs, c \in Conns :
            (\E ok \in BOOLEAN : TaskSend(p, c, ok))
            => /\ inv[p].tasks[c].sendOk = "none"
               /\ inv[p].tasks[c].data = <<>>
               /\ inv'[p].tasks[c].pc # "send"]_vars

\* a broadcast to two connections has returned, both sends having failed
C18_Witness ==
    \E p \in Procs :
        Returned(p) /\ Cardinality(Failed(inv[p].tasks)) = 2

\* a serialized payload without its timestamp member
WithoutTimestamp(payload) ==
    SelectSeq(payload, LAMBDA member : member[1] # "timestamp")

\* the tasks of a broadcast whose send has been issued
Sent(tasks) == {c \in DOMAIN tasks : tasks[c].sendOk # "none"}

\* C19: within one broadcast every connection is sent the same serialized
\* payload, the progress event of that broadcast; the payloads differ at
\* most in their timestamp.
C19_SamePayload ==
    \A p \in Procs :
        inv[p].kind = "broadcast" =>
            \A a \in Sent(inv[p].tasks) :
                /\ WithoutTimestamp(inv[p].tasks[a].data)
                       = WithoutTimestamp(Stringify(inv[p].message))
                /\ \A b \in Sent(inv[p].tasks) :
                       WithoutTimestamp(inv[p].tasks[a].data)
                           = WithoutTimestamp(inv[p].tasks[b].data)

\* two connections have been sent an event that carries data
C19_Witness ==
    \E p \in Procs :
        /\ inv[p].kind = "broadcast"
        /\ Cardinality(Sent(inv[p].tasks)) = 2
        /\ inv[p].message.data # NoData

\* C20: a progress event is never persisted: a broadcast writes no item and
\* modifies none; the only store change it makes is deleting Connection
\* records of connections whose delivery failed.
C20_NothingPersisted ==
    [][\A p \in Procs :
          (/\ inv[p].kind = "broadcast" \/ inv'[p].kind = "broadcast"
           /\ inv'[p] # inv[p])
          => /\ store' \subseteq store
             /\ \A i \in store \ store' :
                   /\ i.PK[1] = "CONNECTION"
                   /\ i.connectionId \in Failed(inv[p].tasks)]_vars

\* a broadcast delivered to one connection and deleted the record of
\* another, whose send had failed
C20_Witness ==
    \E p \in Procs :
        /\ Returned(p)
        /\ Delivered(inv[p].tasks) # {}
        /\ \E c \in Failed(inv[p].tasks) :
              inv[p].tasks[c].key # NoKey /\ QueryPK(store, c) = {}

\* C21: a Connection is stored with an expiry exactly two hours after its
\* registration time: ttl = floor(now_ms / 1000) + 7200 seconds.
C21_TtlTwoHours ==
    \A i \in store :
        /\ i.ttl = (i.connectedAt \div 1000) + 7200
        /\ i.ttl * 1000 <= i.connectedAt + 7200000
        /\ i.ttl * 1000 > i.connectedAt + 7199000

\* a record registered at a time that is not a whole second
C21_Witness ==
    \E i \in store : i.connectedAt % 1000 # 0 /\ i.connectedAt = now

\* C22: the analytics handler isolates per-record errors: it goes through
\* the records in order, a record whose processing fails does not keep the
\* later records from being processed, exactly one result entry is pushed
\* per record, and the handler never throws.
C22_BatchIsolation ==
    /\ analytics.pc # "thrown"
    /\ Len(analytics.results) = analytics.i - 1
    /\ \A k \in 1..Len(analytics.results) :
          /\ analytics.results[k].messageId = analytics.Records[k].messageId
          /\ analytics.results[k].status = "success"
                <=> analytics.Records[k].body = "object"
    /\ analytics.pc = "returned"
          => Len(analytics.results) = Len(analytics.Records)

\* a batch whose first record failed and whose last record succeeded
C22_Witness ==
    /\ analytics.pc = "returned"
    /\ Len(analytics.results) = MaxBatch
    /\ analytics.results[1].status = "error"
    /\ analytics.results[MaxBatch].status = "success"

\* C23: the build always produces a manifest covering every function: the
\* functions are built in list order, a failed build does not stop the
\* others, and the manifest written has exactly one entry per name in
\* LAMBDA_FUNCTIONS, with success = true and a zipPath exactly when that
\* function's build succeeded.
C23_ManifestCoversAll ==
    /\ build.pc # "thrown"
    /\ \A k \in 1..Len(build.results) :
          build.results[k].functionName = LAMBDA_FUNCTIONS[k]
    /\ build.pc = "done" =>
          /\ DOMAIN build.manifest =
                {LAMBDA_FUNCTIONS[k] : k \in 1..Len(LAMBDA_FUNCTIONS)}
          /\ \A k \in 1..Len(LAMBDA_FUNCTIONS) :
                LET entry == build.manifest[LAMBDA_FUNCTIONS[k]]
                IN /\ entry.success <=> build.outcomes[k] = "built"
                   /\ entry.zipPath # "null" <=> build.outcomes[k] = "built"

\* C24: when the disconnect handling of connection id c has completed with
\* no store failure, no Connection record with connection id c is left in
\* the store, whatever $connect events came before (also $connect events of
\* c under more than one userId).
C24_DisconnectRemovesAll ==
    [][\A p \in Procs, c \in Conns :
          /\ (inv[p].kind = "disconnect" /\ inv[p].connectionId = c
                 /\ HandlerDelete(p, TRUE))
             => QueryPK(store', c) = {}
          /\ DisconnectEvent(p, c, TRUE) /\ inv' = inv
             => QueryPK(store', c) = {}]_vars

\* C25: every item a broadcast attempts delivery to is a Connection record
\* of that user: with other entity types indexed under the same
\* GSI1PK = USER#<userId>, the by-user lookup of both implementations returns
\* only Connection records, so no send is issued for an item that is not a
\* connection.
C25_OnlyConnectionRecords ==
    lookup.pc = "done" =>
        /\ \A i \in lookup.items :
              i.PK[1] = "CONNECTION" /\ i.userId = lookup.userId
        /\ Undefined \notin lookup.attempted

\* C26: on a $default message whose echo to the sending connection fails,
\* the handler removes that connection's record and answers 200 (the store
\* calls succeeding); when the echo succeeds the store is left unchanged.
C26_FailedEchoRemoves ==
    [][\A p \in Procs, c \in Conns :
          /\ (\E q \in BOOLEAN : MessageEvent(p, c, TRUE, TRUE, q))
             => store' = store /\ resp'.status = 200
          /\ MessageEvent(p, c, TRUE, FALSE, TRUE) /\ inv' = inv
             => resp'.status = 200 /\ QueryPK(store', c) = {}
          /\ (inv[p].kind = "message" /\ inv[p].connectionId = c
                 /\ HandlerDelete(p, TRUE))
             => resp'.status = 200 /\ QueryPK(store', c) = {}]_vars

\* an ARN whose last cache.set is less than 5 minutes old
Fresh(sec, arn) ==
    /\ sec.storedAt[arn] # NeverStored
    /\ sec.clock < sec.storedAt[arn] + CacheMs

\* C27: SecretsHelper caches a secret for 5 minutes: from the moment
\* getSecret stores a fetched value for an ARN, the ARN stays in the cache
\* (so every getSecret call for it is answered without contacting Secrets
\* Manager) for the following 5 minutes and is out of it afterwards, in any
\* interleaving of concurrent calls; a failed fetch leaves the cache
\* unchanged.
C27_CachedFiveMinutes ==
    [][/\ \A a \in Arns :
            /\ Fresh(secrets', a) => a \in secrets'.cache
            /\ (secrets'.storedAt[a] # NeverStored /\ ~Fresh(secrets', a))
                  => a \notin secrets'.cache
       /\ \A k \in Callers : FetchFail(k) => secrets'.cache = secrets.cache]_vars

\* C28: a successful updateItem on an item whose stored version is v, with
\* an updates argument that names no version, leaves the stored version at
\* v + 1 and sets updatedAt to the current time.
C28_UpdateIncrementsVersion ==
    [][\A updates \in UpdateArgs :
          ("version" \notin DOMAIN updates /\ DocUpdate(updates))
          => /\ doc'.item["version"] = doc.item["version"] + 1
             /\ doc'.item["updatedAt"] = doc.clock]_vars

\* a message whose processing fails on every attempt
Poison(m) ==
    /\ queue[m].state = "visible"
    /\ ProcessThrows([messageId |-> m, body |-> queue[m].body])

\* C29: an analytics message whose processing fails on every attempt is
\* redelivered and, once received maxReceiveCount (5) times, eventually
\* ends up in the analytics dead-letter queue; it is not deleted as
\* processed.
C29_PoisonReachesDlq ==
    \A m \in QMessages : Poison(m) ~> (queue[m].state = "dlq")

====
